---- MODULE Spec2Model ----
(***************************************************************************)
(* Model of the stress-analysis pipeline of the doctor portal:             *)
(*   stress_analysis/services.py  process_health_data,                     *)
(*                                calculate_stress_level, categorize_stress *)
(*                                                                         *)
(* Numbers.  Python floats are modelled as exact rationals [n, d] (d > 0,  *)
(* lowest terms); a calendar date is a day number, a datetime is the day   *)
(* number of its date (the time of day of `now` is carried unchanged       *)
(* through every timedelta(days=k) and never decides a comparison).        *)
(***************************************************************************)
EXTENDS Integers, Sequences, FiniteSets, TLC

VARIABLES
    \* ---- process_health_data: arguments, clock and locals
    heart_rate_data,   \* list of [timestamp, heart_rate, source]
    sleep_data,        \* list of [start_time, duration_hours, source]
    step_data,         \* list of [timestamp, steps, source]
    calories_data,     \* list of [timestamp, calories, source]
    now,               \* the day datetime.now() falls on
    start_date,
    end_date,
    current_date,
    day_count,
    processed_data,    \* the list being built and returned
    pc,                \* "idle" | "fetch" | "input" | "loop" | "done"
    \* ---- calculate_stress_level called on its own
    heart_rate,
    steps,
    sleep_duration,
    calories,
    stress_score,      \* the value returned
    score_pc,          \* "idle" | "call" | "returned"
    \* ---- categorize_stress called on its own
    cat_stress_level,  \* the argument stress_level
    cat_result,        \* the pair returned
    cat_pc,            \* "idle" | "call" | "returned"
    \* ---- calculate_correlation called on its own
    array1,
    array2,
    corr_result,       \* [kind |-> "value", v |-> x] or [kind |-> "raise", exc |-> e]
    corr_pc,           \* "idle" | "call" | "returned"
    \* ---- a view fetching the four metrics through GoogleFitService
    fetch_outcome,     \* metric |-> "none" | "ok" | "request_error" | "forbidden"
    now_hour,          \* hour of the day of the fetch window's end
    fetch_days,        \* length of the fetch window in days
    \* ---- the OAuth views and the session they share
    session,           \* request.session, key |-> value or ABSENT
    request,           \* the request being answered
    response,          \* what the last view returned
    google_fit_connected   \* the flag stress_dashboard last rendered

vars == <<heart_rate_data, sleep_data, step_data, calories_data, now,
          start_date, end_date, current_date, day_count, processed_data, pc,
          heart_rate, steps, sleep_duration, calories, stress_score, score_pc,
          cat_stress_level, cat_result, cat_pc,
          array1, array2, corr_result, corr_pc,
          fetch_outcome, now_hour, fetch_days,
          session, request, response, google_fit_connected>>

aggVars == <<heart_rate_data, sleep_data, step_data, calories_data, now,
             start_date, end_date, current_date, day_count, processed_data, pc>>

scoreVars == <<heart_rate, steps, sleep_duration, calories, stress_score, score_pc>>

catVars == <<cat_stress_level, cat_result, cat_pc>>

corrVars == <<array1, array2, corr_result, corr_pc>>

fetchVars == <<fetch_outcome, now_hour, fetch_days>>

sessVars == <<session, request, response, google_fit_connected>>

\* everything outside process_health_data and calculate_stress_level
extVars == <<catVars, corrVars, fetchVars, sessVars>>

(***************************************************************************)
(* Bounds of the model                                                     *)
(***************************************************************************)
MaxSamples == 2     \* samples supplied to one call, all four lists together
Today == 8          \* day number of datetime.now()
MaxLen == 3         \* length of the lists passed to calculate_correlation
FloatBits == 8      \* significant bits of a float in calculate_correlation
                    \* (53 in Python; the rounding behaves alike)

(***************************************************************************)
(* Exact arithmetic standing for Python's float arithmetic                 *)
(***************************************************************************)
Abs(x) == IF x < 0 THEN -x ELSE x

RECURSIVE GCD(_, _)
GCD(a, b) == IF b = 0 THEN a ELSE GCD(b, a % b)

Rat(n, d) ==
    LET g == GCD(Abs(n), d)
    IN  [n |-> n \div g, d |-> d \div g]

RInt(i) == [n |-> i, d |-> 1]

RAdd(a, b) == Rat(a.n * b.d + b.n * a.d, a.d * b.d)

RSub(a, b) == Rat(a.n * b.d - b.n * a.d, a.d * b.d)

RMul(a, b) == Rat(a.n * b.n, a.d * b.d)

RLt(a, b) == a.n * b.d < b.n * a.d

RLe(a, b) == a.n * b.d <= b.n * a.d

\* max(a, b) and min(a, b) of Python: the first argument wins a tie
RMax(a, b) == IF RLt(a, b) THEN b ELSE a

RMin(a, b) == IF RLt(b, a) THEN b ELSE a

\* sum(list)
RECURSIVE RSum(_)
RSum(s) == IF s = <<>> THEN RInt(0) ELSE RAdd(Head(s), RSum(Tail(s)))

\* np.mean mistaken for a plain sum
RMeanAsSum(s) == RSum(s)

\* np.mean(list) of a non-empty list
RMean(s) == RMul(RSum(s), Rat(1, Len(s)))

\* round(x, 1): to one decimal, a tie going to the even last digit
Round1(x) ==
    LET t == 10 * x.n
        q == t \div x.d
        r == t - q * x.d
        up == \/ 2 * r > x.d
              \/ (2 * r = x.d /\ q % 2 = 1)
    IN  Rat(IF up THEN q + 1 ELSE q, 10)

(***************************************************************************)
(* calculate_stress_level                                                  *)
(***************************************************************************)
\* the low heart-rate term written with its difference reversed
HeartRateAdjustReversed(score, hr) ==
    IF RLt(RInt(80), hr) THEN RAdd(score, RMul(RSub(hr, RInt(80)), Rat(1, 2)))
    ELSE IF RLt(hr, RInt(60)) THEN RAdd(score, RMul(RSub(hr, RInt(60)), Rat(3, 10)))
    ELSE score

HeartRateAdjust(score, hr) ==
    IF RLt(RInt(80), hr) THEN RAdd(score, RMul(RSub(hr, RInt(80)), Rat(1, 2)))
    ELSE IF RLt(hr, RInt(60)) THEN RAdd(score, RMul(RSub(RInt(60), hr), Rat(3, 10)))
    ELSE score

\* the step term added without its test
ActivityAdjustUnguarded(score, st) ==
    RAdd(score, RMul(RSub(RInt(5000), st), Rat(1, 1000)))

\* the step threshold set at 10000
ActivityAdjustWide(score, st) ==
    IF RLt(st, RInt(10000)) THEN RAdd(score, RMul(RSub(RInt(10000), st), Rat(1, 1000)))
    ELSE score

ActivityAdjust(score, st) ==
    IF RLt(st, RInt(5000)) THEN RAdd(score, RMul(RSub(RInt(5000), st), Rat(1, 1000)))
    ELSE score

\* the sleep test chained to the earlier ones with elif
SleepAdjustChained(score, sl) ==
    IF score # RInt(50) THEN score
    ELSE IF RLt(sl, RInt(6)) THEN RAdd(score, RMul(RSub(RInt(6), sl), RInt(5)))
    ELSE score

SleepAdjust(score, sl) ==
    IF RLt(sl, RInt(6)) THEN RAdd(score, RMul(RSub(RInt(6), sl), RInt(5)))
    ELSE score

\* the upper clamp left out
ClampLowerOnly(score) == RMax(RInt(0), score)

Clamp(score) == RMax(RInt(0), RMin(RInt(100), score))

\* a calories term added to the score
calculate_stress_level_with_calories(hr, st, sl, cal) ==
    LET s0 == RInt(50)
        s1 == HeartRateAdjust(s0, hr)
        s2 == ActivityAdjust(s1, st)
        s3 == SleepAdjust(s2, sl)
        s4 == IF RLt(cal, RInt(1800)) THEN RAdd(s3, RInt(5)) ELSE s3
    IN  Clamp(s4)

calculate_stress_level(hr, st, sl, cal) ==
    LET s0 == RInt(50)
        s1 == HeartRateAdjust(s0, hr)
        s2 == ActivityAdjust(s1, st)
        s3 == SleepAdjust(s2, sl)
    IN  Clamp(s3)

(***************************************************************************)
(* categorize_stress                                                       *)
(***************************************************************************)
\* the LOW threshold taken inclusive
categorize_stress_low_inclusive(level) ==
    IF RLe(level, RInt(25)) THEN <<"LOW", "success">>
    ELSE IF RLt(level, RInt(50)) THEN <<"MODERATE", "info">>
    ELSE IF RLt(level, RInt(75)) THEN <<"HIGH", "warning">>
    ELSE <<"VERY_HIGH", "danger">>

\* the MODERATE threshold taken inclusive
categorize_stress_inclusive(level) ==
    IF RLt(level, RInt(25)) THEN <<"LOW", "success">>
    ELSE IF RLe(level, RInt(50)) THEN <<"MODERATE", "info">>
    ELSE IF RLt(level, RInt(75)) THEN <<"HIGH", "warning">>
    ELSE <<"VERY_HIGH", "danger">>

categorize_stress(level) ==
    IF RLt(level, RInt(25)) THEN <<"LOW", "success">>
    ELSE IF RLt(level, RInt(50)) THEN <<"MODERATE", "info">>
    ELSE IF RLt(level, RInt(75)) THEN <<"HIGH", "warning">>
    ELSE <<"VERY_HIGH", "danger">>

(***************************************************************************)
(* process_health_data: the body of one iteration of the day loop          *)
(***************************************************************************)
GOOGLE_FIT == "google_fit"
DEMO == "demo"

\* [x[field] for x in sel]
Project(sel, field) ==
    IF sel = <<>> THEN <<>> ELSE [i \in 1..Len(sel) |-> sel[i][field]]

\* any([a, b, c, d]): a list is true when it is not empty
any(lists) == \E i \in 1..Len(lists) : lists[i] # <<>>

daily_heart_rates(hrd, cur) ==
    Project(SelectSeq(hrd, LAMBDA hr : hr.timestamp = cur /\ hr.source = GOOGLE_FIT),
            "heart_rate")

daily_sleep(sld, cur) ==
    Project(SelectSeq(sld, LAMBDA sleep : sleep.start_time = cur /\ sleep.source = GOOGLE_FIT),
            "duration_hours")

\* the date test left out of the genuine step filter
daily_steps_any_date(std, cur) ==
    Project(SelectSeq(std, LAMBDA step : step.source = GOOGLE_FIT), "steps")

daily_steps(std, cur) ==
    Project(SelectSeq(std, LAMBDA step : step.timestamp = cur /\ step.source = GOOGLE_FIT),
            "steps")

daily_calories(cad, cur) ==
    Project(SelectSeq(cad, LAMBDA cal : cal.timestamp = cur /\ cal.source = GOOGLE_FIT),
            "calories")

demo_hr(hrd, cur) ==
    Project(SelectSeq(hrd, LAMBDA hr : hr.timestamp = cur /\ hr.source = DEMO),
            "heart_rate")

demo_sleep(sld, cur) ==
    Project(SelectSeq(sld, LAMBDA sleep : sleep.start_time = cur /\ sleep.source = DEMO),
            "duration_hours")

demo_steps(std, cur) ==
    Project(SelectSeq(std, LAMBDA step : step.timestamp = cur /\ step.source = DEMO),
            "steps")

demo_calories(cad, cur) ==
    Project(SelectSeq(cad, LAMBDA cal : cal.timestamp = cur /\ cal.source = DEMO),
            "calories")

\* genuine and substitute heart rates of the day averaged together
HeartRateOfDayMixed(hrd, cur) ==
    IF daily_heart_rates(hrd, cur) # <<>>
    THEN <<RMean(daily_heart_rates(hrd, cur) \o demo_hr(hrd, cur)), GOOGLE_FIT>>
    ELSE <<IF demo_hr(hrd, cur) # <<>> THEN RMean(demo_hr(hrd, cur)) ELSE RInt(72), DEMO>>

\* <<avg_heart_rate, hr_source>>
HeartRateOfDay(hrd, cur) ==
    IF daily_heart_rates(hrd, cur) # <<>>
    THEN <<RMean(daily_heart_rates(hrd, cur)), GOOGLE_FIT>>
    ELSE <<IF demo_hr(hrd, cur) # <<>> THEN RMean(demo_hr(hrd, cur)) ELSE RInt(72), DEMO>>

\* <<sleep_duration, sleep_source>>
SleepOfDay(sld, cur) ==
    IF daily_sleep(sld, cur) # <<>>
    THEN <<RMean(daily_sleep(sld, cur)), GOOGLE_FIT>>
    ELSE <<IF demo_sleep(sld, cur) # <<>> THEN RMean(demo_sleep(sld, cur)) ELSE RInt(7), DEMO>>

\* <<total_steps, steps_source>>
StepsOfDay(std, cur) ==
    IF daily_steps(std, cur) # <<>>
    THEN <<RSum(daily_steps(std, cur)), GOOGLE_FIT>>
    ELSE <<IF demo_steps(std, cur) # <<>> THEN RSum(demo_steps(std, cur)) ELSE RInt(8000), DEMO>>

\* the calories tagged genuine whenever the day has any calories sample
CaloriesOfDayTaggedBySample(cad, cur) ==
    IF daily_calories(cad, cur) # <<>>
    THEN <<RSum(daily_calories(cad, cur)), GOOGLE_FIT>>
    ELSE IF demo_calories(cad, cur) # <<>>
         THEN <<RSum(demo_calories(cad, cur)), GOOGLE_FIT>>
         ELSE <<RInt(2000), DEMO>>

\* <<total_calories, calories_source>>
CaloriesOfDay(cad, cur) ==
    IF daily_calories(cad, cur) # <<>>
    THEN <<RSum(daily_calories(cad, cur)), GOOGLE_FIT>>
    ELSE <<IF demo_calories(cad, cur) # <<>> THEN RSum(demo_calories(cad, cur)) ELSE RInt(2000), DEMO>>

\* the calories list left out of the any(...)
has_real_data_no_calories(hrd, sld, std, cad, cur) ==
    any(<<daily_heart_rates(hrd, cur), daily_sleep(sld, cur), daily_steps(std, cur)>>)

has_real_data(hrd, sld, std, cad, cur) ==
    any(<<daily_heart_rates(hrd, cur), daily_sleep(sld, cur),
          daily_steps(std, cur), daily_calories(cad, cur)>>)

\* the dictionary appended to processed_data for the day cur
DayEntry(hrd, sld, std, cad, cur) ==
    LET h == HeartRateOfDay(hrd, cur)
        s == SleepOfDay(sld, cur)
        t == StepsOfDay(std, cur)
        c == CaloriesOfDay(cad, cur)
        stress_level == calculate_stress_level(h[1], t[1], s[1], c[1])
        cat == categorize_stress(stress_level)
    IN  [date            |-> cur,
         timestamp       |-> cur,
         heart_rate      |-> Round1(h[1]),
         sleep_duration  |-> Round1(s[1]),
         steps           |-> t[1],
         calories        |-> Round1(c[1]),
         stress_level    |-> Round1(stress_level),
         stress_category |-> cat[1],
         stress_color    |-> cat[2],
         has_real_data   |-> has_real_data(hrd, sld, std, cad, cur),
         data_sources    |-> [heart_rate |-> h[2], sleep |-> s[2],
                              steps |-> t[2], calories |-> c[2]]]

(***************************************************************************)
(* Inputs a caller can pass                                                *)
(***************************************************************************)
\* dates of the samples: before the window, its first day, yesterday, today
SampleDays == {Today - 8, Today - 7, Today - 1, Today}

Sources == {GOOGLE_FIT, DEMO}

HeartRateValues == {RInt(70), RInt(90)}
SleepValues == {RInt(5), Rat(726, 100)}
StepValues == {RInt(3000), RInt(9000)}
CalorieValues == {RInt(1500), Rat(250026, 100)}

TotalSamples ==
    Len(heart_rate_data) + Len(sleep_data) + Len(step_data) + Len(calories_data)

\* values calculate_stress_level is called with when called on its own
ScoreHeartRates == {RInt(-50), RInt(50), RInt(60), RInt(70), RInt(80),
                    RInt(90), Rat(12992, 100), RInt(1000)}
ScoreSteps == {RInt(-1000), RInt(0), RInt(3000), RInt(5000), RInt(9000),
               RInt(15000), RInt(20000), RInt(1000000)}
ScoreSleeps == {RInt(-2), RInt(0), RInt(5), RInt(6), RInt(8), RInt(10),
                RInt(11), RInt(100)}
ScoreCalories == {RInt(-100), RInt(0), RInt(2000), RInt(1000000)}

(***************************************************************************)
(* Specification Spec: one call of process_health_data                     *)
(***************************************************************************)
ABSENT == "absent"

Metrics == {"heart_rate", "sleep", "steps", "calories"}

CatIdle ==
    /\ cat_stress_level = RInt(50)
    /\ cat_result = <<"HIGH", "warning">>
    /\ cat_pc = "idle"

CorrIdle ==
    /\ array1 = <<>>
    /\ array2 = <<>>
    /\ corr_result = [kind |-> "value", v |-> RInt(0)]
    /\ corr_pc = "idle"

FetchIdle ==
    /\ fetch_outcome = [m \in Metrics |-> "none"]
    /\ now_hour = 0
    /\ fetch_days = 7

SessionKeys == {"google_fit_credentials", "google_fit_state",
                "google_fit_redirect_uri", "google_fit_callback_data",
                "google_fit_redirect_after_login"}

NoRequest == [view |-> "none"]

NoResponse == [kind |-> "none"]

SessIdle ==
    /\ session = [k \in SessionKeys |-> ABSENT]
    /\ request = NoRequest
    /\ response = NoResponse
    /\ google_fit_connected = FALSE

ExtIdle == CatIdle /\ CorrIdle /\ FetchIdle /\ SessIdle

ScoreIdle ==
    /\ heart_rate = RInt(72)
    /\ steps = RInt(8000)
    /\ sleep_duration = RInt(7)
    /\ calories = RInt(2000)
    /\ stress_score = RInt(50)
    /\ score_pc = "idle"

Init ==
    /\ heart_rate_data = <<>>
    /\ sleep_data = <<>>
    /\ step_data = <<>>
    /\ calories_data = <<>>
    /\ now = Today
    /\ start_date = Today
    /\ end_date = Today
    /\ current_date = Today
    /\ day_count = 0
    /\ processed_data = <<>>
    /\ pc = "input"
    /\ ScoreIdle
    /\ ExtIdle

\* the caller puts one more sample in the heart_rate_data it will pass
SupplyHeartRate ==
    /\ pc = "input"
    /\ TotalSamples < MaxSamples
    /\ \E d \in SampleDays, v \in HeartRateValues, src \in Sources :
          heart_rate_data' = Append(heart_rate_data,
              [timestamp |-> d, heart_rate |-> v, source |-> src])
    /\ UNCHANGED <<sleep_data, step_data, calories_data, now, start_date,
                   end_date, current_date, day_count, processed_data, pc>>
    /\ UNCHANGED <<scoreVars, extVars>>

SupplySleep ==
    /\ pc = "input"
    /\ TotalSamples < MaxSamples
    /\ \E d \in SampleDays, v \in SleepValues, src \in Sources :
          sleep_data' = Append(sleep_data,
              [start_time |-> d, duration_hours |-> v, source |-> src])
    /\ UNCHANGED <<heart_rate_data, step_data, calories_data, now, start_date,
                   end_date, current_date, day_count, processed_data, pc>>
    /\ UNCHANGED <<scoreVars, extVars>>

SupplySteps ==
    /\ pc = "input"
    /\ TotalSamples < MaxSamples
    /\ \E d \in SampleDays, v \in StepValues, src \in Sources :
          step_data' = Append(step_data,
              [timestamp |-> d, steps |-> v, source |-> src])
    /\ UNCHANGED <<heart_rate_data, sleep_data, calories_data, now, start_date,
                   end_date, current_date, day_count, processed_data, pc>>
    /\ UNCHANGED <<scoreVars, extVars>>

SupplyCalories ==
    /\ pc = "input"
    /\ TotalSamples < MaxSamples
    /\ \E d \in SampleDays, v \in CalorieValues, src \in Sources :
          calories_data' = Append(calories_data,
              [timestamp |-> d, calories |-> v, source |-> src])
    /\ UNCHANGED <<heart_rate_data, sleep_data, step_data, now, start_date,
                   end_date, current_date, day_count, processed_data, pc>>
    /\ UNCHANGED <<scoreVars, extVars>>

\* entry of process_health_data up to the loop
ProcessStart ==
    /\ pc = "input"
    /\ processed_data' = <<>>
    /\ end_date' = now
    /\ start_date' = now - 7
    /\ current_date' = now - 7
    /\ day_count' = 0
    /\ pc' = "loop"
    /\ UNCHANGED <<heart_rate_data, sleep_data, step_data, calories_data, now>>
    /\ UNCHANGED <<scoreVars, extVars>>

\* the loop bounded by the dates alone
LoopConditionDatesOnly == current_date <= end_date

LoopCondition == current_date <= end_date /\ day_count < 7

\* the day put at the front of the list instead of its end
ProcessDayPrepend ==
    /\ pc = "loop"
    /\ LoopCondition
    /\ processed_data' = <<DayEntry(heart_rate_data, sleep_data, step_data,
                                    calories_data, current_date)>> \o processed_data
    /\ current_date' = current_date + 1
    /\ day_count' = day_count + 1
    /\ UNCHANGED <<heart_rate_data, sleep_data, step_data, calories_data, now,
                   start_date, end_date, pc>>
    /\ UNCHANGED <<scoreVars, extVars>>

\* one iteration of the while loop
ProcessDay ==
    /\ pc = "loop"
    /\ LoopCondition
    /\ processed_data' = Append(processed_data,
          DayEntry(heart_rate_data, sleep_data, step_data, calories_data, current_date))
    /\ current_date' = current_date + 1
    /\ day_count' = day_count + 1
    /\ UNCHANGED <<heart_rate_data, sleep_data, step_data, calories_data, now,
                   start_date, end_date, pc>>
    /\ UNCHANGED <<scoreVars, extVars>>

\* the loop ends and processed_data is returned
ProcessReturn ==
    /\ pc = "loop"
    /\ ~LoopCondition
    /\ pc' = "done"
    /\ UNCHANGED <<heart_rate_data, sleep_data, step_data, calories_data, now,
                   start_date, end_date, current_date, day_count, processed_data>>
    /\ UNCHANGED <<scoreVars, extVars>>

Next ==
    \/ SupplyHeartRate
    \/ SupplySleep
    \/ SupplySteps
    \/ SupplyCalories
    \/ ProcessStart
    \/ ProcessDay
    \/ ProcessReturn

Spec == Init /\ [][Next]_vars

(***************************************************************************)
(* Specification SpecScore: one call of calculate_stress_level             *)
(***************************************************************************)
AggIdle ==
    /\ heart_rate_data = <<>>
    /\ sleep_data = <<>>
    /\ step_data = <<>>
    /\ calories_data = <<>>
    /\ now = Today
    /\ start_date = Today
    /\ end_date = Today
    /\ current_date = Today
    /\ day_count = 0
    /\ processed_data = <<>>
    /\ pc = "idle"

InitScore ==
    /\ AggIdle
    /\ heart_rate \in ScoreHeartRates
    /\ steps \in ScoreSteps
    /\ sleep_duration \in ScoreSleeps
    /\ calories \in ScoreCalories
    /\ stress_score = RInt(50)
    /\ score_pc = "call"
    /\ ExtIdle

CallCalculateStressLevel ==
    /\ score_pc = "call"
    /\ stress_score' = calculate_stress_level(heart_rate, steps, sleep_duration, calories)
    /\ score_pc' = "returned"
    /\ UNCHANGED <<heart_rate, steps, sleep_duration, calories>>
    /\ UNCHANGED <<aggVars, extVars>>

NextScore == CallCalculateStressLevel

SpecScore == InitScore /\ [][NextScore]_vars

(***************************************************************************)
(* Specification SpecCategory: one call of categorize_stress               *)
(***************************************************************************)
\* the levels categorize_stress is called with: 0.0, 0.1, ... 100.0
CategoryLevels == {Rat(k, 10) : k \in 0..1000}

InitCategory ==
    /\ AggIdle
    /\ ScoreIdle
    /\ CorrIdle
    /\ FetchIdle
    /\ SessIdle
    /\ cat_stress_level \in CategoryLevels
    /\ cat_result = <<"HIGH", "warning">>
    /\ cat_pc = "call"

CallCategorizeStress ==
    /\ cat_pc = "call"
    /\ cat_result' = categorize_stress(cat_stress_level)
    /\ cat_pc' = "returned"
    /\ UNCHANGED cat_stress_level
    /\ UNCHANGED <<aggVars, scoreVars, corrVars, fetchVars, sessVars>>

NextCategory == CallCategorizeStress

SpecCategory == InitCategory /\ [][NextCategory]_vars

(***************************************************************************)
(* Floating point, for calculate_correlation: every operation returns the  *)
(* exact result rounded to FloatBits significant bits, ties to even        *)
(***************************************************************************)
RECURSIVE Pow2(_)
Pow2(k) == IF k = 0 THEN 1 ELSE 2 * Pow2(k - 1)

RNeg(a) == [n |-> -a.n, d |-> a.d]

\* a / b for b # 0
RDiv(a, b) ==
    IF b.n > 0 THEN Rat(a.n * b.d, a.d * b.n) ELSE Rat(-(a.n * b.d), a.d * (-b.n))

\* round(x, 2)
Round2(x) ==
    LET t == 100 * x.n
        q == t \div x.d
        r == t - q * x.d
        up == \/ 2 * r > x.d
              \/ (2 * r = x.d /\ q % 2 = 1)
    IN  Rat(IF up THEN q + 1 ELSE q, 100)

\* the float nearest to (n / d) * 2^e, n / d > 0
RECURSIVE FlNorm(_, _, _)
FlNorm(n, d, e) ==
    IF n >= Pow2(FloatBits) * d
    THEN IF n % 2 = 0 THEN FlNorm(n \div 2, d, e + 1) ELSE FlNorm(n, 2 * d, e + 1)
    ELSE IF n < Pow2(FloatBits - 1) * d
    THEN IF d % 2 = 0 THEN FlNorm(n, d \div 2, e - 1) ELSE FlNorm(2 * n, d, e - 1)
    ELSE LET q == n \div d
             r == n - q * d
             m == IF 2 * r > d \/ (2 * r = d /\ q % 2 = 1) THEN q + 1 ELSE q
         IN  IF e >= 0 THEN Rat(m * Pow2(e), 1) ELSE Rat(m, Pow2(-e))

Fl(x) ==
    IF x.n = 0 THEN RInt(0)
    ELSE IF x.n > 0 THEN FlNorm(x.n, x.d, 0)
    ELSE RNeg(FlNorm(-x.n, x.d, 0))

FAdd(a, b) == Fl(RAdd(a, b))

FSub(a, b) == Fl(RSub(a, b))

FMul(a, b) == Fl(RMul(a, b))

FDiv(a, b) == Fl(RDiv(a, b))

\* the float nearest to sqrt(n / d) * 2^e, n / d > 0
RECURSIVE FlSqrtNorm(_, _, _)
FlSqrtNorm(n, d, e) ==
    IF n >= Pow2(2 * FloatBits) * d
    THEN IF n % 4 = 0 THEN FlSqrtNorm(n \div 4, d, e + 1) ELSE FlSqrtNorm(n, 4 * d, e + 1)
    ELSE IF n < Pow2(2 * FloatBits - 2) * d
    THEN IF d % 4 = 0 THEN FlSqrtNorm(n, d \div 4, e - 1) ELSE FlSqrtNorm(4 * n, d, e - 1)
    ELSE LET f == CHOOSE k \in Pow2(FloatBits - 1)..Pow2(FloatBits) :
                      k * k * d <= n /\ (k + 1) * (k + 1) * d > n
             m == IF 4 * n > (4 * f * f + 4 * f + 1) * d THEN f + 1 ELSE f
         IN  IF e >= 0 THEN Rat(m * Pow2(e), 1) ELSE Rat(m, Pow2(-e))

\* x ** 0.5 for a float x >= 0
FSqrt(x) == IF x.n = 0 THEN RInt(0) ELSE FlSqrtNorm(x.n, x.d, 0)

\* sum(list) of floats, left to right from 0
RECURSIVE FSumFrom(_, _)
FSumFrom(acc, s) == IF s = <<>> THEN acc ELSE FSumFrom(FAdd(acc, Head(s)), Tail(s))

FSum(s) == FSumFrom(RInt(0), s)

(***************************************************************************)
(* calculate_correlation                                                   *)
(***************************************************************************)
Value(x) == [kind |-> "value", v |-> x]

Raise(e) == [kind |-> "raise", exc |-> e]

\* den = prod ** 0.5; return round(num / den, 2) if den != 0 else 0
\* (a negative float to the power 0.5 is a complex number, which is not 0
\* and which round() rejects)
CorrelationReturn(num, prod) ==
    IF prod.n < 0 THEN Raise("TypeError")
    ELSE IF FSqrt(prod) # RInt(0) THEN Value(Round2(FDiv(num, FSqrt(prod))))
    ELSE Value(RInt(0))

calculate_correlation(a1, a2) ==
    LET n == Len(a1)
    IN  IF n # Len(a2) \/ n = 0 THEN Value(RInt(0))
        ELSE
        LET sum1 == FSum(a1)
            sum2 == FSum(a2)
            sum1_sq == FSum([i \in 1..n |-> FMul(a1[i], a1[i])])
            sum2_sq == FSum([i \in 1..n |-> FMul(a2[i], a2[i])])
            p_sum == FSum([i \in 1..n |-> FMul(a1[i], a2[i])])
            num == FSub(p_sum, FDiv(FMul(sum1, sum2), RInt(n)))
            prod == FMul(FSub(sum1_sq, FDiv(FMul(sum1, sum1), RInt(n))),
                         FSub(sum2_sq, FDiv(FMul(sum2, sum2), RInt(n))))
        IN  CorrelationReturn(num, prod)

(***************************************************************************)
(* Specification SpecCorr: one call of calculate_correlation               *)
(***************************************************************************)
\* the floats of the lists: 1.1 (rounded to a float), 1, 2 and 3
CorrValues == {Fl(Rat(11, 10)), RInt(1), RInt(2), RInt(3)}

CorrArrays == UNION {[1..k -> CorrValues] : k \in 0..MaxLen}

InitCorr ==
    /\ AggIdle
    /\ ScoreIdle
    /\ CatIdle
    /\ FetchIdle
    /\ SessIdle
    /\ array1 \in CorrArrays
    /\ array2 \in CorrArrays
    /\ corr_result = Value(RInt(0))
    /\ corr_pc = "call"

CallCalculateCorrelation ==
    /\ corr_pc = "call"
    /\ corr_result' = calculate_correlation(array1, array2)
    /\ corr_pc' = "returned"
    /\ UNCHANGED <<array1, array2>>
    /\ UNCHANGED <<aggVars, scoreVars, catVars, fetchVars, sessVars>>

NextCorr == CallCalculateCorrelation

SpecCorr == InitCorr /\ [][NextCorr]_vars

(***************************************************************************)
(* GoogleFitService: the four fetches and the demo generators              *)
(***************************************************************************)
\* start_time = end_time - timedelta(days = ...) in the views
FetchWindows == {7, 30}

\* hour of the day at which the view runs
NowHours == {0, 13}

\* a call's draw from the standard normal distribution; np.random.normal(m, s)
\* is m + s * draw
DemoDraws == {-4, 6}

\* the days np.random.random() > 0.2 is false on: none, or every k-th day
SkipPatterns == {0, 2}

\* current.weekday(), day 0 being a Monday
weekday(d) == d % 7

\* heart_rate_data[:24*7]
Truncate(s, k) == IF Len(s) <= k THEN s ELSE SubSeq(s, 1, k)

\* mean and deviation of base_hr at an hour of the day
DemoHeartRateBand(hour) ==
    IF 2 <= hour /\ hour <= 6 THEN <<58, 3>>
    ELSE IF 7 <= hour /\ hour <= 9 THEN <<72, 5>>
    ELSE IF 10 <= hour /\ hour <= 18 THEN <<78, 8>>
    ELSE <<68, 4>>

\* one hourly sample from start_time to end_time, cut to the first 168
_get_demo_heart_rate_data(start_day, end_day, hour0, z) ==
    LET count == 24 * (end_day - start_day) + 1
        sample(k) ==
            LET h == (hour0 + k - 1) % 24
                band == DemoHeartRateBand(h)
                base_hr == band[1] + band[2] * z
            IN  [timestamp  |-> start_day + ((hour0 + k - 1) \div 24),
                 heart_rate |-> Round1(RMax(RInt(50), RMin(RInt(120), RInt(base_hr + 2 * z)))),
                 source     |-> DEMO]
    IN  Truncate([k \in 1..count |-> sample(k)], 24 * 7)

\* the sleep generator tagging its samples as genuine
_get_demo_sleep_data_tagged_genuine(start_day, end_day, z, skip) ==
    LET days == [k \in 1..(end_day - start_day + 1) |-> start_day + k - 1]
        kept == SelectSeq(days, LAMBDA d : ~(skip > 0 /\ d % skip = 0))
    IN  [i \in 1..Len(kept) |->
            [start_time     |-> kept[i] + ((46 + 3 * z) \div 48),
             duration_hours |-> Round1(RMax(RInt(4), RMin(RInt(10), Rat(15 + 2 * z, 2)))),
             source         |-> GOOGLE_FIT]]

\* at most one sample a day; sleep_start is the day's midnight plus
\* 23 + 1.5 * draw hours
_get_demo_sleep_data(start_day, end_day, z, skip) ==
    LET days == [k \in 1..(end_day - start_day + 1) |-> start_day + k - 1]
        kept == SelectSeq(days, LAMBDA d : ~(skip > 0 /\ d % skip = 0))
    IN  [i \in 1..Len(kept) |->
            [start_time     |-> kept[i] + ((46 + 3 * z) \div 48),
             duration_hours |-> Round1(RMax(RInt(4), RMin(RInt(10), Rat(15 + 2 * z, 2)))),
             source         |-> DEMO]]

\* one sample a day
_get_demo_step_count(start_day, end_day, z) ==
    [k \in 1..(end_day - start_day + 1) |->
        LET current == start_day + k - 1
            drawn == IF weekday(current) >= 5 THEN 6000 + 2000 * z ELSE 8000 + 1500 * z
        IN  [timestamp |-> current,
             steps     |-> RMax(RInt(1000), RMin(RInt(20000), RInt(drawn))),
             source    |-> DEMO]]

\* one sample a day; steps_today * 0.04 is 320 + 80 * draw
_get_demo_calories_data(start_day, end_day, z) ==
    [k \in 1..(end_day - start_day + 1) |->
        [timestamp |-> start_day + k - 1,
         calories  |-> Round1(RMax(RInt(1200),
                              RMin(RInt(3500), RInt((320 + 80 * z) + (1600 + 200 * z))))),
         source    |-> DEMO]]

\* lists parsed from a successful response
FetchedHeartRates ==
    {<<>>, <<[timestamp |-> now - 1, heart_rate |-> RInt(90), source |-> GOOGLE_FIT]>>,
     <<[timestamp |-> now - 1, heart_rate |-> Rat(12992, 100), source |-> GOOGLE_FIT]>>}

FetchedSleep ==
    {<<>>, <<[start_time |-> now - 1, duration_hours |-> RInt(5), source |-> GOOGLE_FIT]>>}

FetchedSteps ==
    {<<>>, <<[timestamp |-> now - 1, steps |-> RInt(3000), source |-> GOOGLE_FIT]>>}

FetchedCalories ==
    {<<>>, <<[timestamp |-> now - 1, calories |-> RInt(1500), source |-> GOOGLE_FIT]>>}

(***************************************************************************)
(* Specification SpecFetch: a view fetches the four metrics and passes     *)
(* them to process_health_data                                             *)
(***************************************************************************)
InitFetch ==
    /\ heart_rate_data = <<>>
    /\ sleep_data = <<>>
    /\ step_data = <<>>
    /\ calories_data = <<>>
    /\ now = Today
    /\ start_date = Today
    /\ end_date = Today
    /\ current_date = Today
    /\ day_count = 0
    /\ processed_data = <<>>
    /\ pc = "fetch"
    /\ ScoreIdle
    /\ CatIdle
    /\ CorrIdle
    /\ SessIdle
    /\ fetch_outcome = [m \in Metrics |-> "none"]
    /\ now_hour \in NowHours
    /\ fetch_days \in FetchWindows

get_heart_rate_data ==
    /\ pc = "fetch"
    /\ fetch_outcome["heart_rate"] = "none"
    /\ \/ /\ heart_rate_data' \in FetchedHeartRates
          /\ fetch_outcome' = [fetch_outcome EXCEPT !["heart_rate"] = "ok"]
       \/ \E z \in DemoDraws :
             /\ heart_rate_data' = _get_demo_heart_rate_data(now - fetch_days, now, now_hour, z)
             /\ fetch_outcome' = [fetch_outcome EXCEPT !["heart_rate"] = "forbidden"]
       \/ \E z \in DemoDraws :
             /\ heart_rate_data' = _get_demo_heart_rate_data(now - fetch_days, now, now_hour, z)
             /\ fetch_outcome' = [fetch_outcome EXCEPT !["heart_rate"] = "request_error"]
    /\ UNCHANGED <<sleep_data, step_data, calories_data, now, start_date, end_date,
                   current_date, day_count, processed_data, pc, now_hour, fetch_days>>
    /\ UNCHANGED <<scoreVars, catVars, corrVars, sessVars>>

get_sleep_data ==
    /\ pc = "fetch"
    /\ fetch_outcome["heart_rate"] # "none"
    /\ fetch_outcome["sleep"] = "none"
    /\ \/ /\ sleep_data' \in FetchedSleep
          /\ fetch_outcome' = [fetch_outcome EXCEPT !["sleep"] = "ok"]
       \/ \E z \in DemoDraws, skip \in SkipPatterns :
             /\ sleep_data' = _get_demo_sleep_data(now - fetch_days, now, z, skip)
             /\ fetch_outcome' = [fetch_outcome EXCEPT !["sleep"] = "request_error"]
    /\ UNCHANGED <<heart_rate_data, step_data, calories_data, now, start_date, end_date,
                   current_date, day_count, processed_data, pc, now_hour, fetch_days>>
    /\ UNCHANGED <<scoreVars, catVars, corrVars, sessVars>>

get_step_count ==
    /\ pc = "fetch"
    /\ fetch_outcome["sleep"] # "none"
    /\ fetch_outcome["steps"] = "none"
    /\ \/ /\ step_data' \in FetchedSteps
          /\ fetch_outcome' = [fetch_outcome EXCEPT !["steps"] = "ok"]
       \/ \E z \in DemoDraws :
             /\ step_data' = _get_demo_step_count(now - fetch_days, now, z)
             /\ fetch_outcome' = [fetch_outcome EXCEPT !["steps"] = "request_error"]
    /\ UNCHANGED <<heart_rate_data, sleep_data, calories_data, now, start_date, end_date,
                   current_date, day_count, processed_data, pc, now_hour, fetch_days>>
    /\ UNCHANGED <<scoreVars, catVars, corrVars, sessVars>>

\* the last fetch; the view then calls process_health_data
get_calories_data ==
    /\ pc = "fetch"
    /\ fetch_outcome["steps"] # "none"
    /\ fetch_outcome["calories"] = "none"
    /\ \/ /\ calories_data' \in FetchedCalories
          /\ fetch_outcome' = [fetch_outcome EXCEPT !["calories"] = "ok"]
       \/ \E z \in DemoDraws :
             /\ calories_data' = _get_demo_calories_data(now - fetch_days, now, z)
             /\ fetch_outcome' = [fetch_outcome EXCEPT !["calories"] = "request_error"]
    /\ pc' = "input"
    /\ UNCHANGED <<heart_rate_data, sleep_data, step_data, now, start_date, end_date,
                   current_date, day_count, processed_data, now_hour, fetch_days>>
    /\ UNCHANGED <<scoreVars, catVars, corrVars, sessVars>>

NextFetch ==
    \/ get_heart_rate_data
    \/ get_sleep_data
    \/ get_step_count
    \/ get_calories_data
    \/ ProcessStart
    \/ ProcessDay
    \/ ProcessReturn

SpecFetch == InitFetch /\ [][NextFetch]_vars

(***************************************************************************)
(* The OAuth views and the helpers of utils.py                             *)
(***************************************************************************)
None == "None"

LOGIN_URL == "/accounts/sign_in_patient"

DASHBOARD == "stress_analysis:dashboard"

AUTH_URL == "authorization_url"

REDIRECT_URI == "http://localhost:8000/stress-analysis/google-fit-callback/"

\* the state values flow.authorization_url() can draw
OAuthStates == {"s1", "s2"}

\* the authorization codes the provider can send
OAuthCodes == {"c1"}

\* the names stress_analysis/utils.py defines
UtilsNames == {"get_google_fit_auth_url", "get_google_fit_credentials",
               "save_credentials_to_session", "exchange_code_for_token",
               "is_google_fit_configured"}

Redirect(to, level, text) == [kind |-> "redirect", to |-> to, level |-> level, message |-> text]

Render(template) == [kind |-> "render", template |-> template]

\* the Credentials object built from the session entry, or None; the object
\* is built without an expiry, so it never counts as expired and is never
\* refreshed
get_google_fit_credentials(sess) ==
    IF sess["google_fit_credentials"] = ABSENT THEN None
    ELSE sess["google_fit_credentials"]

save_credentials_to_session(sess, credentials) ==
    [sess EXCEPT !["google_fit_credentials"] = credentials]

\* flow.fetch_token(...): the credentials, or the exception it raises
exchange_code_for_token(sess, req) ==
    IF req.exchange_ok /\ req.code # ABSENT
    THEN Value(req.code)
    ELSE Raise("Exception")

\* from .utils import validate_state
ImportValidateState ==
    IF "validate_state" \in UtilsNames THEN Value("validate_state") ELSE Raise("ImportError")

\* the requests the views are called with
ViewRequests(view) ==
    [view : {view}, authenticated : BOOLEAN]

CallbackRequests ==
    [view : {"google_fit_callback"}, authenticated : BOOLEAN,
     code : OAuthCodes \cup {ABSENT}, error : {"access_denied", ABSENT},
     state : OAuthStates \cup {ABSENT}, exchange_ok : BOOLEAN]

(***************************************************************************)
(* Specification SpecSession: requests to the OAuth views of one browser   *)
(* session, one after the other                                            *)
(***************************************************************************)
InitSession ==
    /\ AggIdle
    /\ ScoreIdle
    /\ CatIdle
    /\ CorrIdle
    /\ FetchIdle
    /\ session = [k \in SessionKeys |-> ABSENT]
    /\ request = NoRequest
    /\ response = NoResponse
    /\ google_fit_connected = FALSE

\* the fetch and the processing of a connected dashboard are the subject of
\* SpecFetch and are left out here
stress_dashboard ==
    /\ \E req \in ViewRequests("stress_dashboard") :
          /\ request' = req
          /\ IF ~req.authenticated
             THEN /\ response' = Redirect(LOGIN_URL, "none", "")
                  /\ UNCHANGED google_fit_connected
             ELSE /\ google_fit_connected' = (get_google_fit_credentials(session) # None)
                  /\ response' = Render("stress_analysis/dashboard.html")
    /\ UNCHANGED session
    /\ UNCHANGED <<aggVars, scoreVars, catVars, corrVars, fetchVars>>

connect_google_fit ==
    /\ \E req \in ViewRequests("connect_google_fit"), configured \in BOOLEAN,
          state \in OAuthStates :
          /\ request' = req
          /\ IF ~req.authenticated
             THEN /\ response' = Redirect(LOGIN_URL, "none", "")
                  /\ UNCHANGED session
             ELSE IF ~configured
             THEN /\ response' = Redirect(DASHBOARD, "error", "Error connecting to Google Fit")
                  /\ UNCHANGED session
             ELSE /\ session' = [session EXCEPT !["google_fit_state"] = state,
                                                !["google_fit_redirect_uri"] = REDIRECT_URI]
                  /\ response' = Redirect(AUTH_URL, "none", "")
    /\ UNCHANGED google_fit_connected
    /\ UNCHANGED <<aggVars, scoreVars, catVars, corrVars, fetchVars>>

\* the except clause letting the exception through
CallbackExceptReraises(sess) ==
    [session |-> sess, response |-> [kind |-> "exception", exc |-> "ImportError"]]

\* the answer of the handler's except clause
CallbackExcept(sess) ==
    [session |-> sess,
     response |-> Redirect(DASHBOARD, "error", "Error during Google Fit callback")]

\* the statements after the import, valid being what validate_state returns
CallbackBody(sess, req, valid) ==
    IF ~valid
    THEN [session |-> sess,
          response |-> Redirect(DASHBOARD, "error", "Security validation failed")]
    ELSE IF req.error # ABSENT
    THEN [session |-> sess,
          response |-> Redirect(DASHBOARD, "error", "Google Fit authorization failed")]
    ELSE IF req.code = ABSENT
    THEN [session |-> sess,
          response |-> Redirect(DASHBOARD, "error", "No authorization code received")]
    ELSE IF ~req.authenticated
    THEN [session |-> [sess EXCEPT !["google_fit_callback_data"] = "urlencode",
                                   !["google_fit_redirect_after_login"] = "absolute_uri"],
          response |-> Redirect(LOGIN_URL, "none", "")]
    ELSE IF exchange_code_for_token(sess, req).kind = "raise"
    THEN CallbackExcept(sess)
    ELSE [session |-> save_credentials_to_session(sess, exchange_code_for_token(sess, req).v),
          response |-> Redirect(DASHBOARD, "success", "Successfully connected to Google Fit")]

\* the import is the first statement of the try block that can raise; utils.py
\* defines no validate_state, so it raises ImportError, which the except
\* clause answers, and no statement after it runs
google_fit_callback ==
    /\ \E req \in CallbackRequests, valid \in BOOLEAN :
          LET outcome == IF ImportValidateState.kind = "raise"
                         THEN CallbackExcept(session)
                         ELSE CallbackBody(session, req, valid)
          IN  /\ request' = req
              /\ session' = outcome.session
              /\ response' = outcome.response
    /\ UNCHANGED google_fit_connected
    /\ UNCHANGED <<aggVars, scoreVars, catVars, corrVars, fetchVars>>

\* the view answering without deleting the entry
DisconnectBodyKeepsEntry(sess) ==
    IF sess["google_fit_credentials"] # ABSENT
    THEN [session |-> sess,
          response |-> Redirect(DASHBOARD, "success", "Disconnected from Google Fit")]
    ELSE [session |-> sess,
          response |-> Redirect(DASHBOARD, "info", "Not connected to Google Fit")]

\* the body of disconnect_google_fit
DisconnectBody(sess) ==
    IF sess["google_fit_credentials"] # ABSENT
    THEN [session |-> [sess EXCEPT !["google_fit_credentials"] = ABSENT],
          response |-> Redirect(DASHBOARD, "success", "Disconnected from Google Fit")]
    ELSE [session |-> sess,
          response |-> Redirect(DASHBOARD, "info", "Not connected to Google Fit")]

disconnect_google_fit ==
    /\ \E req \in ViewRequests("disconnect_google_fit") :
          /\ request' = req
          /\ IF ~req.authenticated
             THEN /\ response' = Redirect(LOGIN_URL, "none", "")
                  /\ UNCHANGED session
             ELSE /\ session' = DisconnectBody(session).session
                  /\ response' = DisconnectBody(session).response
    /\ UNCHANGED google_fit_connected
    /\ UNCHANGED <<aggVars, scoreVars, catVars, corrVars, fetchVars>>

JsonResponse(status, body) == [kind |-> "json", status |-> status, body |-> body]

\* {'success': False, 'error': text}
ErrorBody(text) == [success |-> FALSE, error |-> text]

\* the payload of a get_demo_... function; its random numbers are left out
DemoPayload(fn) == [demo |-> fn, has_real_data |-> FALSE, data_points |-> 7]

\* the JSON views that answer with health data, and the demo function each
\* falls back on
DemoOf ==
    [get_stress_insights   |-> "get_demo_insights",
     stress_analysis_api   |-> "get_demo_analysis_data",
     api_stress_chart      |-> "get_demo_stress_data",
     api_heart_rate_chart  |-> "get_demo_heart_rate_data",
     api_sleep_chart       |-> "get_demo_sleep_data",
     api_steps_chart       |-> "get_demo_steps_data",
     api_calories_chart    |-> "get_demo_calories_data",
     api_correlation_chart |-> "get_demo_correlation_data",
     api_pattern_chart     |-> "get_demo_pattern_data"]

\* what a view can answer once it holds credentials: the payload computed
\* from the fetched data, its demo payload, or an error status (every
\* answer of the branch is allowed here)
ConnectedAnswers(view) ==
    {JsonResponse(200, [computed |-> TRUE]), JsonResponse(200, DemoPayload(DemoOf[view])),
     JsonResponse(500, ErrorBody("error"))}

\* a view of the shape: credentials = get_google_fit_credentials(request);
\* if not credentials: return get_demo_...()
DataView(view) ==
    /\ \E req \in ViewRequests(view) :
          /\ request' = req
          /\ IF ~req.authenticated
             THEN response' = Redirect(LOGIN_URL, "none", "")
             ELSE IF get_google_fit_credentials(session) = None
             THEN response' = JsonResponse(200, DemoPayload(DemoOf[view]))
             ELSE response' \in ConnectedAnswers(view)
    /\ UNCHANGED <<session, google_fit_connected>>
    /\ UNCHANGED <<aggVars, scoreVars, catVars, corrVars, fetchVars>>

SyncRequests ==
    [view : {"sync_google_fit_data"}, authenticated : BOOLEAN, method : {"POST", "GET"}]

sync_google_fit_data ==
    /\ \E req \in SyncRequests :
          /\ request' = req
          /\ IF ~req.authenticated
             THEN response' = Redirect(LOGIN_URL, "none", "")
             ELSE IF req.method # "POST"
             THEN response' = JsonResponse(400, ErrorBody("Invalid request method"))
             ELSE IF get_google_fit_credentials(session) = None
             THEN response' = JsonResponse(400, ErrorBody("Google Fit not connected"))
             ELSE response' \in {JsonResponse(200, [computed |-> TRUE]), JsonResponse(500, ErrorBody("error"))}
    /\ UNCHANGED <<session, google_fit_connected>>
    /\ UNCHANGED <<aggVars, scoreVars, catVars, corrVars, fetchVars>>

get_stress_insights == DataView("get_stress_insights")

stress_analysis_api == DataView("stress_analysis_api")

api_stress_chart == DataView("api_stress_chart")

api_heart_rate_chart == DataView("api_heart_rate_chart")

api_sleep_chart == DataView("api_sleep_chart")

api_steps_chart == DataView("api_steps_chart")

api_calories_chart == DataView("api_calories_chart")

api_correlation_chart == DataView("api_correlation_chart")

api_pattern_chart == DataView("api_pattern_chart")

NextSession ==
    \/ stress_dashboard
    \/ connect_google_fit
    \/ google_fit_callback
    \/ disconnect_google_fit
    \/ sync_google_fit_data
    \/ get_stress_insights
    \/ stress_analysis_api
    \/ api_stress_chart
    \/ api_heart_rate_chart
    \/ api_sleep_chart
    \/ api_steps_chart
    \/ api_calories_chart
    \/ api_correlation_chart
    \/ api_pattern_chart

SpecSession == InitSession /\ [][NextSession]_vars

(***************************************************************************)
(* What the JSON views compute from the fetched lists and from the result  *)
(* of process_health_data                                                  *)
(***************************************************************************)
\* data.get(key, default)
Get(data, key, default) == IF key \in DOMAIN data THEN data[key] ELSE default

\* the sources get_stress_insights reports for one entry of processed_data
InsightSources(data) ==
    IF Get(data, "has_real_data", FALSE)
    THEN [heart_rate |-> IF Get(data, "heart_rate_source", None) = GOOGLE_FIT
                         THEN GOOGLE_FIT ELSE DEMO,
          sleep      |-> IF Get(data, "sleep_source", None) = GOOGLE_FIT
                         THEN GOOGLE_FIT ELSE DEMO,
          steps      |-> IF Get(data, "steps_source", None) = GOOGLE_FIT
                         THEN GOOGLE_FIT ELSE DEMO,
          calories   |-> IF Get(data, "calories_source", None) = GOOGLE_FIT
                         THEN GOOGLE_FIT ELSE DEMO]
    ELSE [m \in Metrics |-> DEMO]

\* the list data_sources of get_stress_insights
InsightsDataSources(processed) ==
    [i \in 1..Len(processed) |-> InsightSources(processed[i])]

\* round(x) to an integer, ties to even
RoundInt(x) ==
    LET q == x.n \div x.d
        r == x.n - q * x.d
    IN  IF 2 * r > x.d \/ (2 * r = x.d /\ q % 2 = 1) THEN q + 1 ELSE q

\* the dates (timezone.now() - timedelta(days=6-i)).date() for i in range(7)
LastSevenDates(today) == [i \in 1..7 |-> today - (6 - (i - 1))]

\* the heart-rate points whose 'value' the view adds to the day's list
PointValuesOn(hrd, date) ==
    Project(SelectSeq(hrd, LAMBDA hr_point : hr_point.timestamp = date), "value")

\* api_heart_rate_chart from the fetched list on: an empty list and any
\* exception give the demo payload; hr_point['value'] raises KeyError on a
\* point without that key
HeartRateChartConnected(hrd, today) ==
    IF hrd = <<>> THEN JsonResponse(200, DemoPayload(DemoOf["api_heart_rate_chart"]))
    ELSE IF \E i \in 1..Len(hrd) : "value" \notin DOMAIN hrd[i]
    THEN JsonResponse(200, DemoPayload(DemoOf["api_heart_rate_chart"]))
    ELSE JsonResponse(200,
            [timestamps    |-> LastSevenDates(today),
             heart_rates   |-> [i \in 1..7 |->
                 IF PointValuesOn(hrd, LastSevenDates(today)[i]) # <<>>
                 THEN RoundInt(RMean(PointValuesOn(hrd, LastSevenDates(today)[i])))
                 ELSE 72],
             has_real_data |-> Len(hrd) > 0,
             data_points   |-> Len(hrd)])

\* strftime('%Y-%m-%d') of a date or datetime on day d
DateText(d) == [ymd |-> d]

\* timestamps of api_stress_chart: the formatted dates of processed_data
StressChartTimestamps(processed) ==
    [i \in 1..Len(processed) |-> DateText(processed[i].date)]

\* timestamps of get_demo_stress_data and the other get_demo_... functions
DemoTimestamps(today) == [i \in 1..7 |-> DateText(today - (6 - (i - 1)))]

\* timestamps of api_heart_rate_chart and the other per-metric charts
HeartRateChartTimestamps(today) ==
    [i \in 1..7 |-> DateText(LastSevenDates(today)[i])]

\* the category api_pattern_chart counts a stress level under
PatternCategory(level) ==
    IF RLt(level, RInt(25)) THEN "Low"
    ELSE IF RLt(level, RInt(50)) THEN "Moderate"
    ELSE IF RLt(level, RInt(75)) THEN "High"
    ELSE "Very High"

\* stress_categories of api_pattern_chart
PatternCounts(processed) ==
    [c \in {"Low", "Moderate", "High", "Very High"} |->
        Cardinality({i \in 1..Len(processed) :
                        PatternCategory(processed[i].stress_level) = c})]

(***************************************************************************)
(* Vocabulary of the properties                                            *)
(***************************************************************************)
Returned == score_pc = "returned"

Done == pc = "done"

Entries == {processed_data[i] : i \in 1..Len(processed_data)}

AllInputsEmpty ==
    /\ heart_rate_data = <<>>
    /\ sleep_data = <<>>
    /\ step_data = <<>>
    /\ calories_data = <<>>

\* the date of a sample: a sleep session is dated by its start
SampleDay(x) == IF "start_time" \in DOMAIN x THEN x.start_time ELSE x.timestamp

SampleValue(x) ==
    IF "heart_rate" \in DOMAIN x THEN x.heart_rate
    ELSE IF "duration_hours" \in DOMAIN x THEN x.duration_hours
    ELSE IF "steps" \in DOMAIN x THEN x.steps
    ELSE x.calories

\* indices of the samples of a collection dated d with provenance src
SamplesOn(data, d, src) ==
    {i \in 1..Len(data) : SampleDay(data[i]) = d /\ data[i].source = src}

\* sum of the values of the samples of data at the indices in I
RECURSIVE SumAt(_, _)
SumAt(data, I) ==
    IF I = {} THEN RInt(0)
    ELSE LET i == CHOOSE j \in I : TRUE
         IN  RAdd(SampleValue(data[i]), SumAt(data, I \ {i}))

MeanAt(data, I) == RMul(SumAt(data, I), Rat(1, Cardinality(I)))

\* the samples the day's value is taken from: genuine ones when there are any
SelectedOn(data, d) ==
    IF SamplesOn(data, d, GOOGLE_FIT) # {} THEN SamplesOn(data, d, GOOGLE_FIT)
    ELSE SamplesOn(data, d, DEMO)

(***************************************************************************)
(* C1: for every heart_rate, steps, sleep_duration and calories, negative  *)
(* and very large values included, calculate_stress_level returns a value  *)
(* s with 0 <= s <= 100.                                                    *)
(***************************************************************************)
C1_ScoreInRange ==
    Returned => RLe(RInt(0), stress_score) /\ RLe(stress_score, RInt(100))

\* a call with a negative step count and a very large heart rate, whose
\* unclamped score is far above 100
C1_Witness ==
    /\ Returned
    /\ heart_rate = RInt(1000)
    /\ steps = RInt(-1000)
    /\ stress_score = RInt(100)

DefaultDay(e, category) ==
    /\ e.heart_rate = RInt(72)
    /\ e.sleep_duration = RInt(7)
    /\ e.steps = RInt(8000)
    /\ e.calories = RInt(2000)
    /\ e.stress_level = RInt(50)
    /\ e.stress_category = category
    /\ e.has_real_data = FALSE

(***************************************************************************)
(* C2 as stated: with all four collections empty every one of the 7 days   *)
(* has heart_rate 72, sleep_duration 7.0, steps 8000, calories 2000,       *)
(* stress_level 50, stress_category MODERATE and has_real_data false.      *)
(***************************************************************************)
C2_Original ==
    (Done /\ AllInputsEmpty) =>
        /\ Len(processed_data) = 7
        /\ \A e \in Entries : DefaultDay(e, "MODERATE")

(***************************************************************************)
(* C2 amended: with all four collections empty every one of the 7 days has *)
(* heart_rate 72, sleep_duration 7.0, steps 8000, calories 2000,           *)
(* stress_level 50, stress_category HIGH and has_real_data false.          *)
(***************************************************************************)
C2_EmptyInputsGiveDefaults ==
    (Done /\ AllInputsEmpty) =>
        /\ Len(processed_data) = 7
        /\ \A e \in Entries : DefaultDay(e, "HIGH")

C2_Witness ==
    /\ Done
    /\ AllInputsEmpty
    /\ Len(processed_data) = 7
    /\ processed_data[1].stress_category = "HIGH"

GenuineToday ==
    \/ SamplesOn(heart_rate_data, now, GOOGLE_FIT) # {}
    \/ SamplesOn(sleep_data, now, GOOGLE_FIT) # {}
    \/ SamplesOn(step_data, now, GOOGLE_FIT) # {}
    \/ SamplesOn(calories_data, now, GOOGLE_FIT) # {}

(***************************************************************************)
(* C3: the emitted days are the 7 calendar days ending at now inclusive:   *)
(* the last entry is for today's date, and a genuine sample timestamped    *)
(* today is reflected in the output.                                       *)
(***************************************************************************)
C3_WindowEndsToday ==
    Done =>
        /\ processed_data[Len(processed_data)].date = now
        /\ GenuineToday => \E e \in Entries : e.date = now /\ e.has_real_data

(***************************************************************************)
(* C4: process_health_data returns exactly 7 entries for every input,      *)
(* empty collections and collections spanning more than 7 days included.   *)
(***************************************************************************)
C4_SevenEntries == Done => Len(processed_data) = 7

\* one collection holds a sample older than the window and one of today
C4_Witness ==
    /\ Done
    /\ Len(processed_data) = 7
    /\ \E i, j \in 1..Len(heart_rate_data) :
          /\ heart_rate_data[i].timestamp = now - 8
          /\ heart_rate_data[j].timestamp = now

\* the value a metric takes on day d by the rule, before any rounding
ByPreference(data, d, agg(_, _), default) ==
    IF SamplesOn(data, d, GOOGLE_FIT) # {} THEN agg(data, SamplesOn(data, d, GOOGLE_FIT))
    ELSE IF SamplesOn(data, d, DEMO) # {} THEN agg(data, SamplesOn(data, d, DEMO))
    ELSE default

(***************************************************************************)
(* C5: for each emitted day d and each metric, the value comes from the    *)
(* genuine samples dated d alone when there is one (substitute samples of  *)
(* that day have no effect), otherwise from the substitute samples dated   *)
(* d when there is one, otherwise it is the metric's fixed default.        *)
(***************************************************************************)
C5_GenuineThenSubstituteThenDefault ==
    \A e \in Entries :
        /\ e.heart_rate = Round1(ByPreference(heart_rate_data, e.date, MeanAt, RInt(72)))
        /\ e.sleep_duration = Round1(ByPreference(sleep_data, e.date, MeanAt, RInt(7)))
        /\ e.steps = ByPreference(step_data, e.date, SumAt, RInt(8000))
        /\ e.calories = Round1(ByPreference(calories_data, e.date, SumAt, RInt(2000)))

\* a day with a genuine 70 and a substitute 90 is reported as 70, and a day
\* with only a substitute sample is reported from it
C5_Witness ==
    /\ Done
    /\ \E e \in Entries :
          /\ SamplesOn(heart_rate_data, e.date, GOOGLE_FIT) # {}
          /\ SamplesOn(heart_rate_data, e.date, DEMO) # {}
          /\ \E i \in SamplesOn(heart_rate_data, e.date, DEMO) :
                heart_rate_data[i].heart_rate = RInt(90)
          /\ e.heart_rate = RInt(70)

MeanOrDefault(data, d, default) ==
    IF SelectedOn(data, d) = {} THEN default ELSE MeanAt(data, SelectedOn(data, d))

SumOrDefault(data, d, default) ==
    IF SelectedOn(data, d) = {} THEN default ELSE SumAt(data, SelectedOn(data, d))

(***************************************************************************)
(* C6 as stated: a day's heart rate and sleep duration are the arithmetic  *)
(* mean of the selected samples of the day, its steps and calories their   *)
(* sum, and a metric with no sample takes its default (72, 7.0, 8000,      *)
(* 2000).                                                                  *)
(***************************************************************************)
C6_Original ==
    \A e \in Entries :
        /\ e.heart_rate = MeanOrDefault(heart_rate_data, e.date, RInt(72))
        /\ e.sleep_duration = MeanOrDefault(sleep_data, e.date, RInt(7))
        /\ e.steps = SumOrDefault(step_data, e.date, RInt(8000))
        /\ e.calories = SumOrDefault(calories_data, e.date, RInt(2000))

TwoGenuineHeartRates(d) ==
    /\ Len(heart_rate_data) = 2
    /\ \A i \in 1..2 : /\ heart_rate_data[i].timestamp = d
                       /\ heart_rate_data[i].source = GOOGLE_FIT
    /\ {heart_rate_data[1].heart_rate, heart_rate_data[2].heart_rate} = {RInt(70), RInt(90)}
    /\ sleep_data = <<>>
    /\ step_data = <<>>
    /\ calories_data = <<>>

(***************************************************************************)
(* C6 amended: a day's heart rate and sleep duration are the arithmetic    *)
(* mean of the selected samples rounded to one decimal, its steps their    *)
(* sum and its calories their sum rounded to one decimal; a metric with no *)
(* sample takes its default.  Two genuine heart-rate samples 70 and 90 on  *)
(* one emitted day with all other inputs empty give heart rate 80,         *)
(* has_real_data true, steps 8000, sleep 7.0 and calories 2000.            *)
(***************************************************************************)
C6_MeanAndSumRounded ==
    \A e \in Entries :
        /\ e.heart_rate = Round1(MeanOrDefault(heart_rate_data, e.date, RInt(72)))
        /\ e.sleep_duration = Round1(MeanOrDefault(sleep_data, e.date, RInt(7)))
        /\ e.steps = SumOrDefault(step_data, e.date, RInt(8000))
        /\ e.calories = Round1(SumOrDefault(calories_data, e.date, RInt(2000)))
        /\ TwoGenuineHeartRates(e.date) =>
              /\ e.heart_rate = RInt(80)
              /\ e.has_real_data
              /\ e.steps = RInt(8000)
              /\ e.sleep_duration = RInt(7)
              /\ e.calories = RInt(2000)

C6_Witness ==
    /\ Done
    /\ \E e \in Entries : TwoGenuineHeartRates(e.date) /\ e.heart_rate = RInt(80)

GenuineOn(d) ==
    \/ SamplesOn(heart_rate_data, d, GOOGLE_FIT) # {}
    \/ SamplesOn(sleep_data, d, GOOGLE_FIT) # {}
    \/ SamplesOn(step_data, d, GOOGLE_FIT) # {}
    \/ SamplesOn(calories_data, d, GOOGLE_FIT) # {}

(***************************************************************************)
(* C7: for every emitted entry, has_real_data is true if and only if at    *)
(* least one of the four metrics has a genuine sample dated that day.      *)
(***************************************************************************)
C7_HasRealDataIffGenuine ==
    \A e \in Entries : e.has_real_data <=> GenuineOn(e.date)

\* one day is genuine through its calories alone while another day, which
\* has only a substitute sample, is not
C7_Witness ==
    /\ Done
    /\ \E e, f \in Entries :
          /\ e.has_real_data
          /\ SamplesOn(calories_data, e.date, GOOGLE_FIT) # {}
          /\ heart_rate_data = <<>> /\ sleep_data = <<>> /\ step_data = <<>>
          /\ ~f.has_real_data
          /\ SamplesOn(calories_data, f.date, DEMO) # {}

HeartRateNeutral == RLe(RInt(60), heart_rate) /\ RLe(heart_rate, RInt(80))

StepsNeutral == RLe(RInt(5000), steps) /\ RLe(steps, RInt(15000))

SleepNeutral == RLe(RInt(6), sleep_duration) /\ RLe(sleep_duration, RInt(10))

(***************************************************************************)
(* C8: for steps > 15000 the scorer adds (steps - 15000) * 0.0005: with    *)
(* heart_rate in [60,80] and sleep in [6,10], steps above 15000 give a     *)
(* score strictly greater than 50.                                         *)
(***************************************************************************)
C8_HighStepsRaiseScore ==
    (Returned /\ HeartRateNeutral /\ SleepNeutral /\ RLt(RInt(15000), steps)) =>
        /\ RLt(RInt(50), stress_score)
        /\ stress_score = RMin(RInt(100),
              RAdd(RInt(50), RMul(RSub(steps, RInt(15000)), Rat(5, 10000))))

(***************************************************************************)
(* C9: for sleep_hours > 10 the scorer adds (sleep_hours - 10) * 2: with   *)
(* heart_rate in [60,80] and steps in [5000,15000], a sleep duration above *)
(* 10 hours gives a score strictly greater than 50.                        *)
(***************************************************************************)
C9_LongSleepRaisesScore ==
    (Returned /\ HeartRateNeutral /\ StepsNeutral /\ RLt(RInt(10), sleep_duration)) =>
        /\ RLt(RInt(50), stress_score)
        /\ stress_score = RMin(RInt(100),
              RAdd(RInt(50), RMul(RSub(sleep_duration, RInt(10)), RInt(2))))

TermH ==
    IF RLt(RInt(80), heart_rate) THEN RMul(RSub(heart_rate, RInt(80)), Rat(5, 10))
    ELSE IF RLt(heart_rate, RInt(60)) THEN RMul(RSub(RInt(60), heart_rate), Rat(3, 10))
    ELSE RInt(0)

TermA ==
    IF RLt(steps, RInt(5000)) THEN RMul(RSub(RInt(5000), steps), Rat(1, 1000))
    ELSE RInt(0)

TermS ==
    IF RLt(sleep_duration, RInt(6)) THEN RMul(RSub(RInt(6), sleep_duration), RInt(5))
    ELSE RInt(0)

(***************************************************************************)
(* C10: calculate_stress_level equals min(100, max(0, 50 + H + A + S)),    *)
(* H = (heart_rate-80)*0.5 if heart_rate > 80, (60-heart_rate)*0.3 if      *)
(* heart_rate < 60, else 0; A = (5000-steps)*0.001 if steps < 5000;        *)
(* S = (6-sleep)*5 if sleep < 6; the three adjustments are independent     *)
(* and additive.                                                           *)
(***************************************************************************)
C10_ClosedForm ==
    Returned =>
        stress_score = RMin(RInt(100), RMax(RInt(0),
            RAdd(RInt(50), RAdd(TermH, RAdd(TermA, TermS)))))

\* all three adjustments act at once and the sum stays below the clamp:
\* 50 + 5 + 2 + 5
C10_Witness ==
    /\ Returned
    /\ heart_rate = RInt(90)
    /\ steps = RInt(3000)
    /\ sleep_duration = RInt(5)
    /\ stress_score = RInt(62)

(***************************************************************************)
(* C11: for all heart_rate in [60,80], steps in [5000,15000] and sleep in  *)
(* [6,10], bounds included, and any calories, calculate_stress_level       *)
(* returns exactly 50.                                                     *)
(***************************************************************************)
C11_NeutralRangeGivesFifty ==
    (Returned /\ HeartRateNeutral /\ StepsNeutral /\ SleepNeutral) =>
        stress_score = RInt(50)

\* every input sits on a bound of its range
C11_Witness ==
    /\ Returned
    /\ heart_rate = RInt(60)
    /\ steps = RInt(15000)
    /\ sleep_duration = RInt(10)
    /\ calories = RInt(1000000)
    /\ stress_score = RInt(50)

\* |x - 70|
DistanceFrom70(x) == IF RLt(x, RInt(70)) THEN RSub(RInt(70), x) ELSE RSub(x, RInt(70))

\* how far x lies below the threshold t, 0 when it does not
Deficit(x, t) == IF RLt(x, t) THEN RSub(t, x) ELSE RInt(0)

SameSideOf70(a, b) ==
    \/ RLe(RInt(70), a) /\ RLe(RInt(70), b)
    \/ RLe(a, RInt(70)) /\ RLe(b, RInt(70))

\* the score of the call in progress with another heart rate, sleep
\* duration or step count in place of its own
ScoreWithHeartRate(b) == calculate_stress_level(b, steps, sleep_duration, calories)

ScoreWithSleep(b) == calculate_stress_level(heart_rate, steps, b, calories)

ScoreWithSteps(b) == calculate_stress_level(heart_rate, b, sleep_duration, calories)

SleepDeficitMonotone ==
    \A b \in ScoreSleeps :
        RLe(Deficit(sleep_duration, RInt(6)), Deficit(b, RInt(6)))
            => RLe(stress_score, ScoreWithSleep(b))

StepDeficitMonotone ==
    \A b \in ScoreSteps :
        RLe(Deficit(steps, RInt(5000)), Deficit(b, RInt(5000)))
            => RLe(stress_score, ScoreWithSteps(b))

(***************************************************************************)
(* C12 as stated: with the other inputs fixed the score is non-decreasing  *)
(* in |heart_rate - 70| (for any a, b with |a-70| <= |b-70|, score(a) <=   *)
(* score(b), also when a and b lie on opposite sides of 70), in the sleep  *)
(* deficit below 6 hours and in the step deficit below 5000.               *)
(***************************************************************************)
C12_Original ==
    Returned =>
        /\ \A b \in ScoreHeartRates :
              RLe(DistanceFrom70(heart_rate), DistanceFrom70(b))
                  => RLe(stress_score, ScoreWithHeartRate(b))
        /\ SleepDeficitMonotone
        /\ StepDeficitMonotone

(***************************************************************************)
(* C12 amended: with the other inputs fixed the score is non-decreasing in *)
(* |heart_rate - 70| for heart rates on the same side of 70 (for any a, b  *)
(* both >= 70 or both <= 70 with |a-70| <= |b-70|, score(a) <= score(b)),  *)
(* in the sleep deficit below 6 hours and in the step deficit below 5000.  *)
(***************************************************************************)
C12_MonotoneOnOneSide ==
    Returned =>
        /\ \A b \in ScoreHeartRates :
              (SameSideOf70(heart_rate, b)
                  /\ RLe(DistanceFrom70(heart_rate), DistanceFrom70(b)))
                  => RLe(stress_score, ScoreWithHeartRate(b))
        /\ SleepDeficitMonotone
        /\ StepDeficitMonotone

\* a low heart rate, short sleep and few steps, each with a farther value
\* on its own side that scores strictly more
C12_Witness ==
    /\ Returned
    /\ heart_rate = RInt(50)
    /\ sleep_duration = RInt(5)
    /\ steps = RInt(3000)
    /\ stress_score = RInt(60)
    /\ RLt(stress_score, ScoreWithHeartRate(RInt(-50)))
    /\ RLt(stress_score, ScoreWithSleep(RInt(0)))
    /\ RLt(stress_score, ScoreWithSteps(RInt(0)))

(***************************************************************************)
(* C14: the entries are in ascending date order, oldest first: the first   *)
(* is for the calendar date of now - 7 days and each following one is for  *)
(* the next consecutive day, no date repeated or skipped.                  *)
(***************************************************************************)
C14_ConsecutiveDaysFromNowMinus7 ==
    \A i \in 1..Len(processed_data) :
        /\ processed_data[i].date = now - 7 + (i - 1)
        /\ i > 1 => processed_data[i].date = processed_data[i - 1].date + 1

C14_Witness ==
    /\ Done
    /\ Len(processed_data) = 7
    /\ processed_data[1].date = now - 7
    /\ processed_data[7].date = now - 1
    /\ Cardinality({processed_data[i].date : i \in 1..7}) = 7

SourceByRule(data, d) ==
    IF SamplesOn(data, d, GOOGLE_FIT) # {} THEN GOOGLE_FIT ELSE DEMO

(***************************************************************************)
(* C15: for every emitted entry and every metric, data_sources[metric] is  *)
(* 'google_fit' if and only if a genuine sample of that metric is dated    *)
(* that day and 'demo' otherwise, both when substitute samples were used   *)
(* and when the default was used; has_real_data is true exactly when at    *)
(* least one data_sources value is 'google_fit'.                           *)
(***************************************************************************)
C15_DataSourcesFollowGenuineSamples ==
    \A e \in Entries :
        /\ e.data_sources.heart_rate = SourceByRule(heart_rate_data, e.date)
        /\ e.data_sources.sleep = SourceByRule(sleep_data, e.date)
        /\ e.data_sources.steps = SourceByRule(step_data, e.date)
        /\ e.data_sources.calories = SourceByRule(calories_data, e.date)
        /\ e.has_real_data <=>
              \E m \in DOMAIN e.data_sources : e.data_sources[m] = GOOGLE_FIT

\* one day has a genuine heart rate, substitute calories and defaulted
\* sleep and steps
C15_Witness ==
    /\ Done
    /\ \E e \in Entries :
          /\ e.data_sources.heart_rate = GOOGLE_FIT
          /\ e.data_sources.calories = DEMO
          /\ SamplesOn(calories_data, e.date, DEMO) # {}
          /\ e.data_sources.sleep = DEMO
          /\ sleep_data = <<>>
          /\ e.has_real_data

EmittedDates == {e.date : e \in Entries}

RemoveAt(data, i) == SubSeq(data, 1, i - 1) \o SubSeq(data, i + 1, Len(data))

\* positions of the samples dated outside the emitted days
Outside(data) == {i \in 1..Len(data) : SampleDay(data[i]) \notin EmittedDates}

(***************************************************************************)
(* C19: adding to, or removing from, any input collection a sample whose   *)
(* date is not one of the 7 emitted dates leaves every emitted entry       *)
(* unchanged.  Stated for removals at every input: an addition to an input *)
(* is the removal read backwards at the larger input.                      *)
(***************************************************************************)
C19_OutsideSamplesHaveNoEffect ==
    Done => \A e \in Entries :
        /\ \A i \in Outside(heart_rate_data) :
              e = DayEntry(RemoveAt(heart_rate_data, i), sleep_data, step_data, calories_data, e.date)
        /\ \A i \in Outside(sleep_data) :
              e = DayEntry(heart_rate_data, RemoveAt(sleep_data, i), step_data, calories_data, e.date)
        /\ \A i \in Outside(step_data) :
              e = DayEntry(heart_rate_data, sleep_data, RemoveAt(step_data, i), calories_data, e.date)
        /\ \A i \in Outside(calories_data) :
              e = DayEntry(heart_rate_data, sleep_data, step_data, RemoveAt(calories_data, i), e.date)

\* the input holds a genuine step sample of today, which is not emitted,
\* next to a sample of an emitted day
C19_Witness ==
    /\ Done
    /\ Len(processed_data) = 7
    /\ \E i \in Outside(step_data) :
          step_data[i].timestamp = now /\ step_data[i].source = GOOGLE_FIT
    /\ \E j \in 1..Len(step_data) : step_data[j].timestamp \in EmittedDates

Categorized == cat_pc = "returned"

\* lo <= stress_level < hi
LevelIn(lo, hi) == RLe(RInt(lo), cat_stress_level) /\ RLt(cat_stress_level, RInt(hi))

(***************************************************************************)
(* C13: categorize_stress maps every score to exactly one category by      *)
(* ascending thresholds: score < 25 gives (LOW, success), 25 <= score < 50 *)
(* gives (MODERATE, info), 50 <= score < 75 gives (HIGH, warning), score   *)
(* >= 75 gives (VERY_HIGH, danger); so 24.9 is LOW, 25.0 and 49.9 are      *)
(* MODERATE, 50.0 and 74.9 are HIGH, 75.0 is VERY_HIGH.                    *)
(***************************************************************************)
C13_CategoryThresholds ==
    Categorized =>
        /\ RLt(cat_stress_level, RInt(25)) <=> cat_result = <<"LOW", "success">>
        /\ LevelIn(25, 50) <=> cat_result = <<"MODERATE", "info">>
        /\ LevelIn(50, 75) <=> cat_result = <<"HIGH", "warning">>
        /\ RLe(RInt(75), cat_stress_level) <=> cat_result = <<"VERY_HIGH", "danger">>
        /\ cat_stress_level = Rat(249, 10) => cat_result[1] = "LOW"
        /\ cat_stress_level \in {RInt(25), Rat(499, 10)} => cat_result[1] = "MODERATE"
        /\ cat_stress_level \in {RInt(50), Rat(749, 10)} => cat_result[1] = "HIGH"
        /\ cat_stress_level = RInt(75) => cat_result[1] = "VERY_HIGH"

\* the lowest threshold itself
C13_Witness ==
    /\ Categorized
    /\ cat_stress_level = RInt(25)
    /\ cat_result = <<"MODERATE", "info">>

Correlated == corr_pc = "returned"

IsConstant(s) == Len(s) > 0 /\ \A i \in 1..Len(s) : s[i] = s[1]

StrictlyIncreasing(s) == Len(s) > 1 /\ \A i \in 1..(Len(s) - 1) : RLt(s[i], s[i + 1])

(***************************************************************************)
(* C16: calculate_correlation returns 0, without raising, whenever the two *)
(* sequences have different lengths, are empty, or the denominator is zero *)
(* (in particular when either sequence is constant).                       *)
(***************************************************************************)
C16_DegenerateCasesReturnZero ==
    (/\ Correlated
     /\ \/ Len(array1) # Len(array2)
        \/ Len(array1) = 0
        \/ IsConstant(array1)
        \/ IsConstant(array2))
        => corr_result = Value(RInt(0))

(***************************************************************************)
(* C17: calculate_correlation applied to two identical strictly increasing *)
(* numeric sequences returns 1.0, and applied to two constant sequences    *)
(* returns 0.                                                              *)
(***************************************************************************)
C17_IdenticalGivesOneConstantGivesZero ==
    Correlated =>
        /\ (array1 = array2 /\ StrictlyIncreasing(array1)) => corr_result = Value(RInt(1))
        /\ (IsConstant(array1) /\ IsConstant(array2) /\ Len(array1) = Len(array2))
              => corr_result = Value(RInt(0))

FetchFailed(m) == fetch_outcome[m] \in {"request_error", "forbidden"}

\* the list the fetch of metric m returned
FetchedList(m) ==
    IF m = "heart_rate" THEN heart_rate_data
    ELSE IF m = "sleep" THEN sleep_data
    ELSE IF m = "steps" THEN step_data
    ELSE calories_data

AllTaggedDemo(s) == \A i \in 1..Len(s) : s[i].source = DEMO

(***************************************************************************)
(* C18: when the fetch of a metric fails with a request error (or, for     *)
(* heart rate, a 403), every sample it returns is tagged 'demo', no day of *)
(* process_health_data's result is marked genuine for that metric, and     *)
(* when all four fetches fail has_real_data is false on all 7 days.        *)
(***************************************************************************)
C18_FailedFetchGivesOnlyDemo ==
    /\ \A m \in Metrics : FetchFailed(m) => AllTaggedDemo(FetchedList(m))
    /\ Done =>
          /\ \A m \in Metrics : FetchFailed(m) =>
                \A e \in Entries : e.data_sources[m] = DEMO
          /\ (\A m \in Metrics : FetchFailed(m)) =>
                /\ Len(processed_data) = 7
                /\ \A e \in Entries : ~e.has_real_data

\* all four fetches failed, the 403 among them, and substitute samples of
\* every metric were used for some day of the result
C18_Witness ==
    /\ Done
    /\ fetch_outcome["heart_rate"] = "forbidden"
    /\ \A m \in Metrics : FetchFailed(m)
    /\ \E e \in Entries :
          /\ e.heart_rate # RInt(72)
          /\ e.sleep_duration # RInt(7)
          /\ e.steps # RInt(8000)
          /\ e.calories # RInt(2000)

\* the last request was a callback that meets the claim's conditions: an
\* authenticated user, a code, no error parameter, the state stored by
\* connect_google_fit, and a code the provider accepts
CompletedAuthorization ==
    /\ request.view = "google_fit_callback"
    /\ request.authenticated
    /\ request.code # ABSENT
    /\ request.error = ABSENT
    /\ session["google_fit_state"] # ABSENT
    /\ request.state = session["google_fit_state"]
    /\ request.exchange_ok

(***************************************************************************)
(* C20: when an authenticated user's google_fit_callback request carries a *)
(* code and no error parameter, the stored OAuth state matches and the     *)
(* token exchange succeeds, the callback saves the credentials in          *)
(* session['google_fit_credentials'], so that the next stress_dashboard    *)
(* sees google_fit_connected true.                                         *)
(***************************************************************************)
C20_CallbackSavesCredentials ==
    CompletedAuthorization =>
        /\ session["google_fit_credentials"] # ABSENT
        /\ get_google_fit_credentials(session) # None

CredentialsOf(sess) == sess["google_fit_credentials"]

\* the token exchange completed and the handler answered with its success
\* message
ExchangeCompleted(resp) == resp.kind = "redirect" /\ resp.level = "success"

\* the statements after the import, for every request and every answer of
\* the state check: a redirect, the credentials touched only by a completed
\* exchange, and an exchange only after a state check that passed
CallbackBodyKeepsCredentials ==
    \A req \in CallbackRequests, valid \in BOOLEAN :
        LET outcome == CallbackBody(session, req, valid)
        IN  /\ outcome.response.kind = "redirect"
            /\ ~ExchangeCompleted(outcome.response) =>
                  CredentialsOf(outcome.session) = CredentialsOf(session)
            /\ ExchangeCompleted(outcome.response) =>
                  /\ valid
                  /\ req.error = ABSENT
                  /\ req.code # ABSENT
                  /\ req.authenticated

\* a step of google_fit_callback that did not complete a token exchange
\* leaves the credentials as they were
CallbackStepKeepsCredentials ==
    (request'.view = "google_fit_callback" /\ ~ExchangeCompleted(response'))
        => CredentialsOf(session') = CredentialsOf(session)

(***************************************************************************)
(* C21: google_fit_callback never propagates an exception and always       *)
(* answers with a redirect; on every path other than a completed token     *)
(* exchange session['google_fit_credentials'] is left unchanged, and the   *)
(* state check comes before any token exchange.                            *)
(***************************************************************************)
C21_CallbackAlwaysRedirects ==
    /\ [](request.view = "google_fit_callback" => response.kind = "redirect")
    /\ [](CallbackBodyKeepsCredentials)
    /\ [][CallbackStepKeepsCredentials]_vars

\* a callback with a code, the stored state and a code the provider would
\* accept was answered through the except clause
C21_Witness ==
    /\ request.view = "google_fit_callback"
    /\ request.code # ABSENT
    /\ request.error = ABSENT
    /\ request.authenticated
    /\ request.exchange_ok
    /\ session["google_fit_state"] # ABSENT
    /\ request.state = session["google_fit_state"]
    /\ response = Redirect(DASHBOARD, "error", "Error during Google Fit callback")
    /\ CredentialsOf(session) = ABSENT

DataViews == DOMAIN DemoOf \cup {"sync_google_fit_data"}

\* the last request ran a data view's body
DataViewAnswered == request.view \in DataViews /\ request.authenticated

DemoAnswer ==
    /\ request.view \in DOMAIN DemoOf
    /\ response = JsonResponse(200, DemoPayload(DemoOf[request.view]))

NotConnectedAnswer == response = JsonResponse(400, ErrorBody("Google Fit not connected"))

InvalidMethodAnswer ==
    /\ request.view = "sync_google_fit_data"
    /\ request.method # "POST"
    /\ response = JsonResponse(400, ErrorBody("Invalid request method"))

\* a session like the present one that holds credentials or none
SessionsLikeThis ==
    {[session EXCEPT !["google_fit_credentials"] = c] :
        c \in {ABSENT} \cup OAuthCodes}

\* disconnect leaves no credentials, whatever the session held, and a
\* second disconnect leaves the session as the first one left it
DisconnectRemovesCredentials ==
    \A sess \in SessionsLikeThis :
        /\ CredentialsOf(DisconnectBody(sess).session) = ABSENT
        /\ get_google_fit_credentials(DisconnectBody(sess).session) = None
        /\ DisconnectBody(DisconnectBody(sess).session).session = DisconnectBody(sess).session

\* a step that is not a completed token exchange does not bring
\* credentials into a session that has none
StaysDisconnected ==
    (CredentialsOf(session) = ABSENT /\ ~ExchangeCompleted(response'))
        => CredentialsOf(session') = ABSENT

\* a disconnect of a session without credentials changes nothing in it
SecondDisconnectChangesNothing ==
    (request'.view = "disconnect_google_fit" /\ CredentialsOf(session) = ABSENT)
        => session' = session

\* after the body of disconnect_google_fit ran, no credentials are left
DisconnectedAfterDisconnect ==
    (request.view = "disconnect_google_fit" /\ request.authenticated)
        => /\ CredentialsOf(session) = ABSENT
           /\ get_google_fit_credentials(session) = None

\* the claim as stated: every data view answers with demo data or the
\* 'not connected' error while the session has no credentials
C22_Original ==
    (DataViewAnswered /\ CredentialsOf(session) = ABSENT)
        => (DemoAnswer \/ NotConnectedAnswer)

(***************************************************************************)
(* C22: after disconnect_google_fit, and until a later google_fit_callback *)
(* saves credentials, session['google_fit_credentials'] is absent,         *)
(* get_google_fit_credentials returns None and every data endpoint answers *)
(* with demo data, a 'not connected' error or, for sync_google_fit_data    *)
(* called with a method other than POST, an 'Invalid request method'       *)
(* error; a second disconnect in that period changes nothing in the        *)
(* session.                                                                *)
(***************************************************************************)
C22_DisconnectedUntilCallback ==
    /\ [](DisconnectedAfterDisconnect)
    /\ [](DisconnectRemovesCredentials)
    /\ []((DataViewAnswered /\ CredentialsOf(session) = ABSENT)
             => (DemoAnswer \/ NotConnectedAnswer \/ InvalidMethodAnswer))
    /\ [][StaysDisconnected]_vars
    /\ [][SecondDisconnectChangesNothing]_vars

\* a data view answered with its demo payload in a session that went
\* through connect_google_fit and has no credentials
C22_Witness ==
    /\ DataViewAnswered
    /\ DemoAnswer
    /\ session["google_fit_state"] # ABSENT
    /\ CredentialsOf(session) = ABSENT

(***************************************************************************)
(* C23: in get_stress_insights's response, for every day with              *)
(* has_real_data, the reported data_sources[metric] equals the provenance  *)
(* that process_health_data recorded for that metric on that day.          *)
(***************************************************************************)
C23_InsightsReportRecordedSources ==
    Done =>
        \A i \in 1..Len(processed_data) :
            processed_data[i].has_real_data =>
                \A m \in Metrics :
                    InsightsDataSources(processed_data)[i][m]
                        = processed_data[i].data_sources[m]

\* the heart rates of the samples of a date
HeartRatesOn(hrd, date) ==
    Project(SelectSeq(hrd, LAMBDA hr : hr.timestamp = date), "heart_rate")

\* the payload the claim describes
ExpectedHeartRateChart(hrd, today) ==
    JsonResponse(200,
        [timestamps    |-> LastSevenDates(today),
         heart_rates   |-> [i \in 1..7 |->
             IF HeartRatesOn(hrd, LastSevenDates(today)[i]) # <<>>
             THEN RoundInt(RMean(HeartRatesOn(hrd, LastSevenDates(today)[i])))
             ELSE 72],
         has_real_data |-> TRUE,
         data_points   |-> Len(hrd)])

(***************************************************************************)
(* C24: when credentials exist and get_heart_rate_data returns a non-empty *)
(* list, api_heart_rate_chart answers with, for each of the last 7 dates,  *)
(* the rounded mean of that date's heart-rate samples (72 for a date with  *)
(* none), has_real_data true and data_points equal to the number of        *)
(* samples, not with the random demo payload.                              *)
(***************************************************************************)
C24_HeartRateChartFromSamples ==
    (fetch_outcome["heart_rate"] # "none" /\ heart_rate_data # <<>>) =>
        HeartRateChartConnected(heart_rate_data, now)
            = ExpectedHeartRateChart(heart_rate_data, now)

(***************************************************************************)
(* C25: the 7 dates in the timestamps that api_stress_chart builds from    *)
(* process_health_data are the same 7 dates as the timestamps of its demo  *)
(* fallback and of the per-metric chart endpoints evaluated at the same    *)
(* instant (today - 6 days through today).                                 *)
(***************************************************************************)
C25_StressChartDatesAreLastSeven ==
    Done =>
        /\ StressChartTimestamps(processed_data) = DemoTimestamps(now)
        /\ StressChartTimestamps(processed_data) = HeartRateChartTimestamps(now)
        /\ StressChartTimestamps(processed_data)
              = [i \in 1..7 |-> DateText(now - 7 + i)]

\* the name api_pattern_chart gives a category of categorize_stress
PatternNameOf ==
    [LOW |-> "Low", MODERATE |-> "Moderate", HIGH |-> "High", VERY_HIGH |-> "Very High"]

\* the counts of the entries' own stress_category
CategoryCounts(processed) ==
    [c \in {"Low", "Moderate", "High", "Very High"} |->
        Cardinality({i \in 1..Len(processed) :
                        PatternNameOf[processed[i].stress_category] = c})]

(***************************************************************************)
(* C26: for every entry emitted by process_health_data, stress_category    *)
(* equals categorize_stress applied to the emitted stress_level (the score *)
(* rounded to one decimal), so the per-category counts of                  *)
(* api_pattern_chart agree with the entries' stress_category.              *)
(***************************************************************************)
C26_CategoryOfEmittedLevel ==
    Done =>
        /\ \A e \in Entries :
              e.stress_category = categorize_stress(e.stress_level)[1]
        /\ PatternCounts(processed_data) = CategoryCounts(processed_data)

\* the score before max(0, min(100, ...))
UnclampedScore(hr, st, sl) ==
    SleepAdjust(ActivityAdjust(HeartRateAdjust(RInt(50), hr), st), sl)

\* the entry process_health_data emits for a day whose only samples carry
\* the values the scorer was called with
EntryOfScoredValues ==
    DayEntry(<<[timestamp |-> now, heart_rate |-> heart_rate, source |-> GOOGLE_FIT]>>,
             <<[start_time |-> now, duration_hours |-> sleep_duration, source |-> GOOGLE_FIT]>>,
             <<[timestamp |-> now, steps |-> steps, source |-> GOOGLE_FIT]>>,
             <<[timestamp |-> now, calories |-> calories, source |-> GOOGLE_FIT]>>,
             now)

(***************************************************************************)
(* C27: calculate_stress_level never returns less than 50: every           *)
(* adjustment is non-negative, so the lower clamp at 0 is never active and *)
(* no entry emitted by process_health_data has stress_category LOW or      *)
(* MODERATE.                                                               *)
(***************************************************************************)
C27_ScoreAtLeastFifty ==
    Returned =>
        /\ RLe(RInt(50), stress_score)
        /\ RLe(RInt(50), HeartRateAdjust(RInt(50), heart_rate))
        /\ RLe(RInt(50), ActivityAdjust(RInt(50), steps))
        /\ RLe(RInt(50), SleepAdjust(RInt(50), sleep_duration))
        /\ RLe(RInt(0), UnclampedScore(heart_rate, steps, sleep_duration))
        /\ EntryOfScoredValues.stress_category \in {"HIGH", "VERY_HIGH"}
        /\ RLe(RInt(50), EntryOfScoredValues.stress_level)

\* a negative heart rate and negative steps, where a signed difference
\* would pull the score down: 50 + 33 + 6 = 89
C27_Witness ==
    /\ Returned
    /\ heart_rate = RInt(-50)
    /\ steps = RInt(-1000)
    /\ sleep_duration = RInt(8)
    /\ stress_score = RInt(89)
    /\ EntryOfScoredValues.stress_category = "VERY_HIGH"

\* calorie lists to run process_health_data with instead of calories_data:
\* none, each sample dropped, and a genuine sample on every emitted day
OtherCalories ==
    {<<>>}
    \cup {RemoveAt(calories_data, i) : i \in 1..Len(calories_data)}
    \cup {[i \in 1..7 |-> [timestamp |-> now - 8 + i, calories |-> RInt(9999),
                           source |-> GOOGLE_FIT]]}

(***************************************************************************)
(* C28: the calories input never influences the score: two calls of        *)
(* calculate_stress_level that differ only in calories return the same     *)
(* score, and two runs of process_health_data that differ only in calorie  *)
(* samples emit the same stress_level and stress_category on every day.    *)
(***************************************************************************)
C28_CaloriesDoNotInfluenceScore ==
    Done => \A e \in Entries :
        LET h == HeartRateOfDay(heart_rate_data, e.date)[1]
            t == StepsOfDay(step_data, e.date)[1]
            s == SleepOfDay(sleep_data, e.date)[1]
            score == calculate_stress_level(h, t, s, CaloriesOfDay(calories_data, e.date)[1])
        IN  /\ \A cal \in ScoreCalories : calculate_stress_level(h, t, s, cal) = score
            /\ \A other \in OtherCalories :
                  LET o == DayEntry(heart_rate_data, sleep_data, step_data, other, e.date)
                  IN  /\ o.stress_level = e.stress_level
                      /\ o.stress_category = e.stress_category

\* a genuine calorie sample low enough to matter, had calories a term in
\* the score, changed the day's calories and nothing of its score
C28_Witness ==
    /\ Done
    /\ \E e \in Entries :
          /\ e.calories = RInt(1500)
          /\ e.data_sources["calories"] = GOOGLE_FIT
          /\ e.stress_level = RInt(50)
          /\ DayEntry(heart_rate_data, sleep_data, step_data, <<>>, e.date).calories
                = RInt(2000)

====
